---- MODULE Spec2Model ----
(***************************************************************************)
(* printf-compat: the format-string interpreter (src/src/parser.rs), the   *)
(* directive model (src/src/lib.rs) and the two provided sinks fmt_write   *)
(* and io_write (src/src/output.rs).                                       *)
(*                                                                         *)
(* Bytes are modelled as their integer codes, byte strings as sequences of *)
(* codes.  One behaviour fixes a template and a variadic argument list and *)
(* calls format() on them once per sink: fmt_write into a String (the call *)
(* Display::fmt of a VaListDisplay makes), io_write into a byte buffer,    *)
(* and a caller-written handler.                                           *)
(***************************************************************************)
EXTENDS Integers, Sequences, FiniteSets, TLC

\* ------------------------------------------------------------------ bounds
\* most chunks a template is put together from
MaxChunks == 4

\* ------------------------------------------------------------------- bytes
\* the byte literals the source matches on
B == [percent |-> 37, star |-> 42, dot |-> 46, minus |-> 45, plus |-> 43,
      space |-> 32, zero |-> 48, nine |-> 57, quote |-> 39, hash |-> 35,
      h |-> 104, l |-> 108, z |-> 122, t |-> 116,
      d |-> 100, i |-> 105, x |-> 120, X |-> 88, u |-> 117, o |-> 111,
      f |-> 102, F |-> 70, e |-> 101, E |-> 69, g |-> 103, G |-> 71,
      a |-> 97, A |-> 65, s |-> 115, c |-> 99, p |-> 112, n |-> 110,
      nul |-> 0]

\* ---------------------------------------------------------------- helpers
Min(a, b) == IF a < b THEN a ELSE b

RECURSIVE Rep(_, _)
\* k copies of byte b (k <= 0 gives the empty string)
Rep(b, k) == IF k <= 0 THEN <<>> ELSE <<b>> \o Rep(b, k - 1)

\* sub.get(0): the first byte, or nul when the slice is empty (the template
\* holds no nul byte, so nul stands for None)
Get0(sub) == IF Len(sub) = 0 THEN B.nul ELSE sub[1]

\* sub.get(1)
Get1(sub) == IF Len(sub) < 2 THEN B.nul ELSE sub[2]

\* ------------------------------------------------------------- parser.rs
next_char(sub) == SubSeq(sub, 2, Len(sub))

\* the match as it would be if '0' were left to the width
FlagOf_zero_is_digit(ch) ==
  CASE ch = B.minus -> "LEFT_ALIGN"
    [] ch = B.plus  -> "PREPEND_PLUS"
    [] ch = B.space -> "PREPEND_SPACE"
    [] ch = B.quote -> "THOUSANDS_GROUPING"
    [] ch = B.hash  -> "ALTERNATE_FORM"
    [] OTHER        -> ""

\* the flag a byte stands for, "" for a byte that is no flag
FlagOf(ch) ==
  CASE ch = B.minus -> "LEFT_ALIGN"
    [] ch = B.plus  -> "PREPEND_PLUS"
    [] ch = B.space -> "PREPEND_SPACE"
    [] ch = B.zero  -> "PREPEND_ZERO"
    [] ch = B.quote -> "THOUSANDS_GROUPING"
    [] ch = B.hash  -> "ALTERNATE_FORM"
    [] OTHER        -> ""

RECURSIVE parse_flags_from(_, _)
parse_flags_from(flags, sub) ==
  IF Len(sub) = 0 \/ FlagOf(sub[1]) = ""
  THEN [flags |-> flags, sub |-> sub]
  ELSE parse_flags_from(flags \cup {FlagOf(sub[1])}, next_char(sub))

parse_flags(sub) == parse_flags_from({}, sub)

\* c_int is a 32-bit two's complement word
CIntMax == 2147483647
CIntHalf == 1073741824

\* wrapping c_int addition
WrapAdd(a, b) ==
  IF a > 0 /\ b > 0 /\ a > CIntMax - b THEN ((a - CIntHalf) - CIntHalf) + ((b - CIntHalf) - CIntHalf)
  ELSE IF a < 0 /\ b < 0 /\ a < (-CIntMax - 1) - b THEN ((a + CIntHalf) + CIntHalf) + ((b + CIntHalf) + CIntHalf)
  ELSE a + b

\* width * 10 + digit in wrapping c_int arithmetic, computed on the two
\* 16-bit halves of the word
Times10Plus(width, digit) ==
  LET lo == ((width % 65536) * 10) + digit
      hi == ((width \div 65536) * 10) + (lo \div 65536)
  IN ((((hi + 32768) % 65536) - 32768) * 65536) + (lo % 65536)

IsDigit(ch) == ch >= B.zero /\ ch <= B.nine

RECURSIVE parse_digits(_, _)
parse_digits(width, sub) ==
  IF Len(sub) = 0 \/ ~IsDigit(sub[1])
  THEN [width |-> width, sub |-> sub, fetched |-> FALSE]
  ELSE parse_digits(Times10Plus(width, sub[1] % 16), next_char(sub))

\* does parse_width fetch from the variadic source?
WidthFetches(sub) == Get0(sub) = B.star

\* width * 10 + digit leaves the c_int range, in the multiplication or in
\* the addition
Overflows(width, digit) ==
  IF width > CIntMax \div 10 THEN TRUE
  ELSE IF width < -(CIntMax \div 10) THEN TRUE
  ELSE width * 10 > CIntMax - digit

RECURSIVE digits_overflow(_, _)
\* some step of the loop of parse_width on the digits of sub overflows
digits_overflow(width, sub) ==
  IF Len(sub) = 0 \/ ~IsDigit(sub[1]) THEN FALSE
  ELSE IF Overflows(width, sub[1] % 16) THEN TRUE
  ELSE digits_overflow(Times10Plus(width, sub[1] % 16), next_char(sub))

\* parse_width overflows on sub
WidthOverflows(sub) == ~WidthFetches(sub) /\ digits_overflow(0, sub)

\* parse_precision overflows on sub
PrecisionOverflows(sub) == Get0(sub) = B.dot /\ WidthOverflows(next_char(sub))


\* parse_width; arg is the value args.arg() yields when it is called
parse_width(sub, arg) ==
  IF WidthFetches(sub)
  THEN [width |-> arg, sub |-> next_char(sub), fetched |-> TRUE]
  ELSE parse_digits(0, sub)

\* does parse_precision fetch from the variadic source?
PrecisionFetches(sub) == Get0(sub) = B.dot /\ WidthFetches(next_char(sub))

\* parse_precision; precision is an Option<c_int>
parse_precision(sub, arg) ==
  IF Get0(sub) = B.dot
  THEN LET r == parse_width(next_char(sub), arg)
       IN [some |-> TRUE, v |-> r.width, sub |-> r.sub, fetched |-> r.fetched]
  ELSE [some |-> FALSE, v |-> 0, sub |-> sub, fetched |-> FALSE]

parse_length(sub) ==
  CASE Get0(sub) = B.h ->
         IF Get1(sub) = B.h THEN [length |-> "Char", sub |-> SubSeq(sub, 3, Len(sub))]
                            ELSE [length |-> "Short", sub |-> next_char(sub)]
    [] Get0(sub) = B.l ->
         IF Get1(sub) = B.l THEN [length |-> "LongLong", sub |-> SubSeq(sub, 3, Len(sub))]
                            ELSE [length |-> "Long", sub |-> next_char(sub)]
    [] Get0(sub) = B.z -> [length |-> "Usize", sub |-> next_char(sub)]
    [] Get0(sub) = B.t -> [length |-> "Isize", sub |-> next_char(sub)]
    [] OTHER -> [length |-> "Int", sub |-> sub]


\* ---------------------------------------------------------------- lib.rs
\* Option<c_int>
None == [some |-> FALSE, v |-> 0]
Some(v) == [some |-> TRUE, v |-> v]

\* a Specifier: kind k, numeric payload n, byte payload s, variant v (the
\* SignedInt/UnsignedInt variant or the DoubleFormat), and the destination
\* pointer ptr of WriteBytesWritten
Specifier(k, n, s, v) == [k |-> k, n |-> n, s |-> s, v |-> v, ptr |-> 0]

\* Specifier::Percent as it would be if "%%" were passed on as text
Percent_as_text == [k |-> "Bytes", n |-> 0, s |-> <<B.percent, B.percent>>, v |-> "", ptr |-> 0]

Percent == Specifier("Percent", 0, <<>>, "")
Bytes(b) == Specifier("Bytes", 0, b, "")

Argument(flags, width, precision, specifier) ==
  [flags |-> flags, width |-> width, precision |-> precision, specifier |-> specifier]

\* impl From<Specifier> for Argument
Into(specifier) == Argument({}, 0, None, specifier)

\* the bits as they would be if every length read the int as it is
LengthBits_of_carrier(length) == IF length \in {"Char", "Short", "Int"} THEN 32 ELSE 64

\* bits of the integer type behind a Length (LP64)
LengthBits(length) ==
  CASE length = "Char" -> 8 [] length = "Short" -> 16 [] length = "Int" -> 32 [] OTHER -> 64

\* the value read through a signed / an unsigned integer type of that many
\* bits; an argument already has the type's range when the type is as wide as
\* the int the caller passes, or wider
SignedOf(v, bits) ==
  IF bits >= 32 THEN v
  ELSE LET m == v % (2 ^ bits) IN IF m >= 2 ^ (bits - 1) THEN m - 2 ^ bits ELSE m
UnsignedOf(v, bits) == IF bits >= 32 THEN v ELSE v % (2 ^ bits)

\* Length::parse_signed / Length::parse_unsigned: Usize and Isize both give Isize
Variant(length) == IF length = "Usize" THEN "Isize" ELSE length
parse_signed(length, v) == SignedOf(v, LengthBits(length))
parse_unsigned(length, v) == UnsignedOf(v, LengthBits(length))

\* DoubleFormat::set_upper applied to the lower-case format
set_upper(format, upper) == IF upper THEN "Upper" \o format ELSE format

is_ascii_uppercase(ch) == ch >= B.A /\ ch <= 90

\* ------------------------------------------------------------- output.rs
\* A usize is written as the isize that has the same bits, so that "as usize"
\* of a negative c_int (at least 2^64 - 2^31) stays a negative number here.
\* (width as usize).wrapping_sub(1)
wrapping_sub1(w) == IF w = -CIntMax - 1 THEN w ELSE w - 1

\* a > b on usize values
UGreater(a, b) == IF (a < 0) = (b < 0) THEN a > b ELSE a < 0

\* a String or Vec<u8> holds at most isize::MAX bytes: writing a field of a
\* width above that never completes (capacity overflow, allocation failure)
Unwritable(w) == w < 0

RECURSIVE Digits(_, _, _)
\* the digits of n >= 0 in the given base
Digits(n, base, upper) ==
  LET dg == n % base
      ch == IF dg < 10 THEN B.zero + dg ELSE (IF upper THEN B.A ELSE B.a) + (dg - 10)
  IN IF n < base THEN <<ch>> ELSE Digits(n \div base, base, upper) \o <<ch>>

IsCont(b) == b >= 128 /\ b <= 191

RECURSIVE from_utf8(_)
\* core::str::from_utf8 succeeds
from_utf8(b) ==
  IF Len(b) = 0 THEN TRUE
  ELSE LET c == b[1] IN
    CASE c < 128 -> from_utf8(SubSeq(b, 2, Len(b)))
      [] c >= 194 /\ c <= 223 ->
           Len(b) >= 2 /\ IsCont(b[2]) /\ from_utf8(SubSeq(b, 3, Len(b)))
      [] c >= 224 /\ c <= 239 ->
           /\ Len(b) >= 3 /\ IsCont(b[2]) /\ IsCont(b[3])
           /\ (c = 224 => b[2] >= 160) /\ (c = 237 => b[2] <= 159)
           /\ from_utf8(SubSeq(b, 4, Len(b)))
      [] c >= 240 /\ c <= 244 ->
           /\ Len(b) >= 4 /\ IsCont(b[2]) /\ IsCont(b[3]) /\ IsCont(b[4])
           /\ (c = 240 => b[2] >= 144) /\ (c = 244 => b[2] <= 143)
           /\ from_utf8(SubSeq(b, 5, Len(b)))
      [] OTHER -> FALSE

\* str::chars().count()
CharCount(b) == Cardinality({j \in 1..Len(b) : ~IsCont(b[j])})

\* the longest prefix of the str b that holds at most p chars
TruncChars(b, p) ==
  LET starts == {j \in 1..Len(b) : ~IsCont(b[j]) /\ Cardinality({m \in 1..j : ~IsCont(b[m])}) - 1 = p}
  IN IF starts = {} THEN b ELSE SubSeq(b, 1, (CHOOSE j \in starts : TRUE) - 1)

\* char::encode_utf8 of a u8 cast to char
EncodeChar(data) ==
  IF data < 128 THEN <<data>> ELSE <<192 + (data \div 64), 128 + (data % 64)>>

\* the outcome of one rendering: ok is the fmt::Result / io::Result, bytes what
\* reached the destination, abort that the write cannot complete
Ok(bytes) == [ok |-> TRUE, bytes |-> bytes, abort |-> FALSE]
Err == [ok |-> FALSE, bytes |-> <<>>, abort |-> FALSE]
Abort == [ok |-> FALSE, bytes |-> <<>>, abort |-> TRUE]

\* t with n spaces of padding, before it when it is right-aligned
Padded(t, n, right) ==
  IF right THEN Ok(Rep(B.space, n) \o t) ELSE Ok(t \o Rep(B.space, n))

\* core::fmt::Formatter::pad, behind "{:1$.prec$}" and "{:>1$.prec$}" on a
\* str: precision truncates and width pads, both counted in chars
FmtPadding(t, width, right) ==
  IF Unwritable(width) THEN Abort ELSE Padded(t, width - CharCount(t), right)

FmtPad(str, width, prec, right) ==
  FmtPadding(IF prec < 0 THEN str ELSE TruncChars(str, prec), width, right)

write_str(flags, width, precision, b) ==
  IF ~from_utf8(b) THEN Err
  ELSE LET prec == IF precision.some THEN precision.v ELSE Len(b)
       IN FmtPad(b, width, prec, "LEFT_ALIGN" \notin flags)


\* core::fmt of a number as it would be if "+" were ignored
FmtNum_plus_ignored(neg, digits, prefix, plus, zero, left, width) ==
  LET sign == IF neg THEN <<B.minus>> ELSE <<>>
      n == width - Len(sign) - Len(prefix) - Len(digits)
  IN IF Unwritable(width) THEN Abort
     ELSE IF zero THEN Ok(sign \o prefix \o Rep(B.zero, n) \o digits)
     ELSE IF left THEN Ok(sign \o prefix \o digits \o Rep(B.space, n))
     ELSE Ok(Rep(B.space, n) \o sign \o prefix \o digits)

\* core::fmt of a number (Formatter::pad_integral, float_to_decimal): sign,
\* then the alternate prefix, then the digits; the 0 flag pads with zeros
\* after sign and prefix, otherwise the field is padded with spaces, on the
\* right for "<" and on the left by default
FmtNum(neg, digits, prefix, plus, zero, left, width) ==
  LET sign == IF neg THEN <<B.minus>> ELSE IF plus THEN <<B.plus>> ELSE <<>>
      n == width - Len(sign) - Len(prefix) - Len(digits)
  IN IF Unwritable(width) THEN Abort
     ELSE IF zero THEN Ok(sign \o prefix \o Rep(B.zero, n) \o digits)
     ELSE IF left THEN Ok(sign \o prefix \o digits \o Rep(B.space, n))
     ELSE Ok(Rep(B.space, n) \o sign \o prefix \o digits)

\* the digits "{:.prec$}", "{:.prec$e}" and "{:.prec$E}" give for the magnitude
\* of data: core::fmt ignores the precision of an integer; the doubles of the
\* model are whole numbers below 10
NumDigits(data, prec, ty) ==
  IF ~data.float THEN Digits(data.mag, 10, FALSE)
  ELSE Digits(data.mag, 10, FALSE)
       \o (IF prec > 0 THEN <<B.dot>> \o Rep(B.zero, prec) ELSE <<>>)
       \o (IF ty = "" THEN <<>> ELSE <<(IF ty = "e" THEN B.e ELSE B.E), B.zero>>)

\* " " followed by a rendering
AfterSpace(r) == IF r.ok THEN Ok(<<B.space>> \o r.bytes) ELSE r

\* macro define_numeric
\* the branches of the macro on the flags, dg being the digits of data
numeric_branches(data, dg, flags, width) ==
  LET d0 == Len(dg)
      spaced == "PREPEND_SPACE" \in flags /\ ~data.neg
  IN IF "LEFT_ALIGN" \in flags THEN
       IF "PREPEND_PLUS" \in flags THEN FmtNum(data.neg, dg, <<>>, TRUE, FALSE, TRUE, width)
       ELSE IF spaced THEN AfterSpace(FmtNum(data.neg, dg, <<>>, FALSE, FALSE, TRUE, wrapping_sub1(width)))
       ELSE FmtNum(data.neg, dg, <<>>, FALSE, FALSE, TRUE, width)
     ELSE IF "PREPEND_PLUS" \in flags THEN
       IF "PREPEND_ZERO" \in flags THEN FmtNum(data.neg, dg, <<>>, TRUE, TRUE, FALSE, width)
       ELSE FmtNum(data.neg, dg, <<>>, TRUE, FALSE, FALSE, width)
     ELSE IF "PREPEND_ZERO" \in flags THEN
       IF spaced
       THEN LET w1 == IF UGreater(d0 + 1, width) THEN WrapAdd(width, 1) ELSE width
            IN AfterSpace(FmtNum(data.neg, dg, <<>>, FALSE, TRUE, FALSE, wrapping_sub1(w1)))
       ELSE FmtNum(data.neg, dg, <<>>, FALSE, TRUE, FALSE, width)
     ELSE LET w1 == IF spaced /\ UGreater(d0 + 1, width) THEN d0 + 1 ELSE width
          IN FmtNum(data.neg, dg, <<>>, FALSE, FALSE, FALSE, w1)

define_numeric(data, flags, width, precision, ty) ==
  IF data.float /\ Unwritable(precision) THEN Abort
  ELSE numeric_branches(data, NumDigits(data, precision, ty), flags, width)

\* the prefix as it would be if "{:#X}" wrote "0X"
AltPrefix_upper(ty) ==
  CASE ty = "x" -> <<B.zero, B.x>> [] ty = "X" -> <<B.zero, B.X>>
    [] ty = "o" -> <<B.zero, B.o>> [] OTHER -> <<>>

\* the prefix "#" puts before the digits of "{:x}", "{:X}" and "{:o}"
AltPrefix(ty) ==
  CASE ty = "x" -> <<B.zero, B.x>> [] ty = "X" -> <<B.zero, B.x>>
    [] ty = "o" -> <<B.zero, B.o>> [] OTHER -> <<>>

Base(ty) == CASE ty = "x" -> 16 [] ty = "X" -> 16 [] ty = "o" -> 8 [] OTHER -> 10

\* macro define_unumeric
\* the branches of the macro on the flags, dg being the digits of data
unumeric_branches(dg, pre, flags, width) ==
     IF "LEFT_ALIGN" \in flags THEN FmtNum(FALSE, dg, pre, FALSE, FALSE, TRUE, width)
     ELSE IF "ALTERNATE_FORM" \in flags THEN
       IF "PREPEND_ZERO" \in flags THEN FmtNum(FALSE, dg, pre, FALSE, TRUE, FALSE, width)
       ELSE FmtNum(FALSE, dg, pre, FALSE, FALSE, FALSE, width)
     ELSE IF "PREPEND_ZERO" \in flags THEN FmtNum(FALSE, dg, pre, FALSE, TRUE, FALSE, width)
     ELSE FmtNum(FALSE, dg, pre, FALSE, FALSE, FALSE, width)

define_unumeric(data, flags, width, ty) ==
  unumeric_branches(Digits(data, Base(ty), ty = "X"),
                    IF "ALTERNATE_FORM" \in flags THEN AltPrefix(ty) ELSE <<>>, flags, width)

\* the rendering fmt_write chooses for a directive (the match on specifier)
FmtRender(arg) ==
  LET sp == arg.specifier
      flags == arg.flags
      width == arg.width
      precision == arg.precision
      k == sp.k
  IN CASE k = "Percent" -> Ok(<<B.percent>>)
       [] k = "Bytes" -> write_str(flags, width, precision, sp.s)
       [] k = "String" -> write_str(flags, width, precision, sp.s)
       [] k = "Hex" -> define_unumeric(sp.n, flags, width, "x")
       [] k = "UpperHex" -> define_unumeric(sp.n, flags, width, "X")
       [] k = "Octal" -> define_unumeric(sp.n, flags, width, "o")
       [] k = "Uint" -> define_unumeric(sp.n, flags, width, "")
       [] k = "Int" ->
            define_numeric([neg |-> sp.n < 0, mag |-> IF sp.n < 0 THEN -sp.n ELSE sp.n, float |-> FALSE],
                           flags, width, IF precision.some THEN precision.v ELSE 0, "")
       [] k = "Double" ->
            define_numeric([neg |-> sp.n < 0, mag |-> IF sp.n < 0 THEN -sp.n ELSE sp.n, float |-> TRUE],
                           flags, width, IF precision.some THEN precision.v ELSE 6,
                           CASE sp.v = "Scientific" -> "e" [] sp.v = "UpperScientific" -> "E" [] OTHER -> "")
       [] k = "Char" ->
            IF Unwritable(width) THEN Abort
            ELSE IF "LEFT_ALIGN" \in flags
                 THEN Ok(EncodeChar(sp.n) \o Rep(B.space, width - 1))
                 ELSE Ok(Rep(B.space, width - 1) \o EncodeChar(sp.n))
       [] k = "Pointer" ->
            FmtNum(FALSE, Digits(sp.n, 16, FALSE), <<B.zero, B.x>>, FALSE,
                   "LEFT_ALIGN" \notin flags /\ "PREPEND_ZERO" \in flags,
                   "LEFT_ALIGN" \in flags, width)
       [] OTHER -> Err

\* what one invocation of a sink does: the c_int it returns, the bytes it
\* appends to its destination, and whether it fails to return at all
Outcome(ret, bytes) == [ret |-> ret, bytes |-> bytes, abort |-> FALSE]
NoReturn == [ret |-> 0, bytes |-> <<>>, abort |-> TRUE]

\* the c_int a provided sink returns for a rendering: the count of its write
\* counter, or -1 for an Err
Counted(res) ==
  IF res.abort THEN NoReturn
  ELSE IF res.ok THEN Outcome(Len(res.bytes), res.bytes)
  ELSE Outcome(-1, res.bytes)

\* the closure fmt_write returns; WriteCounter counts the bytes of every
\* write_str it passes on
fmt_write(arg) == Counted(FmtRender(arg))

\* b.len().min(precision as usize)
UMin(len, p) == IF p < 0 THEN len ELSE Min(len, p)

\* truncation and padding counted in bytes
write_bytes(flags, width, precision, b) ==
  IF Unwritable(width) THEN Abort
  ELSE Padded(SubSeq(b, 1, UMin(Len(b), IF precision.some THEN precision.v ELSE Len(b))),
              width - UMin(Len(b), IF precision.some THEN precision.v ELSE Len(b)),
              "LEFT_ALIGN" \notin flags)

\* the last arm of io_write: the c_int of the inner fmt_write closure is
\* dropped and the result is the io::Result of FmtWriter, which only a
\* failed write sets
FmtWriter(inner) == IF inner.abort THEN Abort ELSE Ok(inner.bytes)

\* the closure io_write returns, on a destination whose writes succeed (a
\* Cursor<Vec<u8>>): IoWriteCounter counts what is written
io_write(arg) ==
  LET k == arg.specifier.k
  IN Counted(CASE k = "Percent" -> Ok(<<B.percent>>)
               [] k = "Bytes" -> write_bytes(arg.flags, arg.width, arg.precision, arg.specifier.s)
               [] k = "String" -> write_bytes(arg.flags, arg.width, arg.precision, arg.specifier.s)
               [] OTHER -> FmtWriter(fmt_write(arg)))


\* ------------------------------------------------------- inputs of a call
\* the byte strings templates are put together from
Chunks == {<<B.percent>>, <<B.star>>, <<B.dot, B.star>>, <<B.d>>, <<B.s>>}

\* the byte strings of templates with %n: text, %d and %n
CountChunks == {<<B.percent>>, <<B.n>>, <<B.d>>, <<B.a>>}

\* the byte strings of templates of text: 'a', U+00E9 in UTF-8 and a byte
\* that no UTF-8 string holds, next to '%' and 's'
TextChunks == {<<B.percent>>, <<B.s>>, <<B.a>>, <<195, 169>>, <<255>>}

RECURSIVE Concat(_)
Concat(ss) == IF Len(ss) = 0 THEN <<>> ELSE Head(ss) \o Concat(Tail(ss))

\* the templates (bytes before the NUL) of at most MaxChunks chunks
Templates(chunks) == {Concat(ss) : ss \in UNION {[1..n -> chunks] : n \in 0..MaxChunks}}

\* the sinks format() is called with, in the order of the calls
Sinks == <<"fmt", "io", "custom">>

\* what the caller-written handler may return
CustomRets == {-2, 1}

\* a variadic argument: its C type t, its number n (the address of a pointer)
\* and, for a char pointer, the bytes s it points to up to the NUL
Arg(t, n, s) == [t |-> t, n |-> n, s |-> s]
NoArg == Arg("none", 0, <<>>)
NullPtr == Arg("str", 0, <<>>)

IntVals == {-1, 1, 3}
CharVals == {97, 233}
UintVals == {0, 255}
DoubleVals == {-1, 0, 2}
StrVals == {<<B.a, B.d>>, <<195, 169>>, <<255>>}
PtrVals == {0, 4096}

\* the arguments a caller may pass where the template asks for type t
ArgsOfType(t) ==
  CASE t = "int" -> {Arg("int", v, <<>>) : v \in IntVals}
    [] t = "char" -> {Arg("int", v, <<>>) : v \in CharVals}
    [] t = "uint" -> {Arg("uint", v, <<>>) : v \in UintVals}
    [] t = "double" -> {Arg("double", v, <<>>) : v \in DoubleVals}
    [] t = "str" -> {NullPtr} \cup {Arg("str", 1, b) : b \in StrVals}
    [] t = "ptr" -> {Arg("ptr", v, <<>>) : v \in PtrVals}
    [] OTHER -> {NoArg}

\* str.split(|&c| c == b'%')
RECURSIVE SplitFrom(_, _, _)
SplitFrom(str, j, piece) ==
  IF j > Len(str) THEN <<piece>>
  ELSE IF str[j] = B.percent THEN <<piece>> \o SplitFrom(str, j + 1, <<>>)
  ELSE SplitFrom(str, j + 1, Append(piece, str[j]))

\* split as it would be if it left out the first byte
Split_after_first(str) == SplitFrom(str, 2, <<>>)

Split(str) == SplitFrom(str, 1, <<>>)

\* ------------------------------------------------------------------ state
VARIABLES
  template,   \* the bytes of the format string before its NUL
  args,       \* the variadic arguments, as far as a call has read them
  cur,        \* the sink of the call of format() in progress
  st,         \* per sink, the state of the call of format() with that sink
  nullpage,   \* what a read through NULL finds, once a call has read there
  mem,        \* the c_int at each address the caller may pass for %n
  vld         \* the VaListDisplay made by display() for template and args

vars == <<template, args, cur, st, nullpage, mem, vld>>

\* a call of format(): pc is its position, iter the index of the next piece of
\* the split, cursor the number of arguments fetched from the VaList, calls the
\* sink invocations (directive, return value, whether the sink returned, and
\* the number of fetches made before), fetched the fetches (role, value and
\* the number of sink invocations made before), out the sink's destination
NewCall ==
  [pc |-> "idle", iter |-> 2, last_was_percent |-> FALSE, written |-> 0,
   cursor |-> 0, calls |-> <<>>, fetched |-> <<>>, out |-> <<>>, result |-> 0]

\* handler(arg): the outcomes of invoking the sink of the call
Handler(sink, arg) ==
  CASE sink = "fmt" -> {fmt_write(arg)}
    [] sink = "io" -> {io_write(arg)}
    [] OTHER -> {Outcome(r, <<>>) : r \in CustomRets}

Running(c) == c.pc \in {"idle", "loop"}

\* err! as it would be with "written = res"
ErrStep_overwrite(c, arg, o) ==
  LET logged == [c EXCEPT !.calls = Append(@, [arg |-> arg, ret |-> o.ret, returned |-> ~o.abort,
                                               nfetch |-> c.cursor]),
                          !.out = @ \o o.bytes]
  IN IF o.abort THEN [logged EXCEPT !.pc = "abort"]
     ELSE IF o.ret < 0 THEN [logged EXCEPT !.pc = "done", !.result = -1]
     ELSE [logged EXCEPT !.written = o.ret]

\* err! as it would be without the early return
ErrStep_no_return(c, arg, o) ==
  LET logged == [c EXCEPT !.calls = Append(@, [arg |-> arg, ret |-> o.ret, returned |-> ~o.abort,
                                               nfetch |-> c.cursor]),
                          !.out = @ \o o.bytes]
  IN IF o.abort THEN [logged EXCEPT !.pc = "abort"]
     ELSE IF o.ret < 0 THEN logged
     ELSE [logged EXCEPT !.written = @ + o.ret]

\* err!(handler(arg)) with outcome o, in a call that is still running
ErrStep(c, arg, o) ==
  LET logged == [c EXCEPT !.calls = Append(@, [arg |-> arg, ret |-> o.ret, returned |-> ~o.abort,
                                               nfetch |-> c.cursor]),
                          !.out = @ \o o.bytes]
  IN IF o.abort THEN [logged EXCEPT !.pc = "abort"]
     ELSE IF o.ret < 0 THEN [logged EXCEPT !.pc = "done", !.result = -1]
     ELSE [logged EXCEPT !.written = @ + o.ret]

\* args.arg() as it would be if it did not advance the list
Fetch_no_advance(c, role, v) ==
  [c EXCEPT !.fetched = Append(@, [role |-> role, val |-> v, ncalls |-> Len(c.calls)])]

\* args.arg() for the given role
Fetch(c, role, v) ==
  [c EXCEPT !.cursor = @ + 1,
            !.fetched = Append(@, [role |-> role, val |-> v, ncalls |-> Len(c.calls)])]

\* the values args.arg() can yield at position k of the argument list
SlotVals(a, needed, k, t) ==
  IF ~needed THEN {NoArg} ELSE IF k <= Len(a) THEN {a[k]} ELSE ArgsOfType(t)

\* the argument list once position k has been read as v
Extend(a, needed, k, v) == IF needed /\ k > Len(a) THEN Append(a, v) ELSE a


\* the match as it would be if the '%' arm fetched an int
ConvType_percent_fetches(ch) ==
  CASE ch \in {B.d, B.i, B.percent} -> "int"
    [] ch \in {B.x, B.X, B.u, B.o} -> "uint"
    [] ch \in {B.f, B.F, B.e, B.E, B.g, B.G, B.a, B.A} -> "double"
    [] ch = B.s -> "str"
    [] ch = B.c -> "char"
    [] ch \in {B.p, B.n} -> "ptr"
    [] OTHER -> "bad"

\* the match as it would be with a last arm that builds an empty directive
\* instead of returning -1
ConvType_lenient(ch) ==
  CASE ch = B.percent -> "none"
    [] ch \in {B.d, B.i} -> "int"
    [] ch \in {B.x, B.X, B.u, B.o} -> "uint"
    [] ch \in {B.f, B.F, B.e, B.E, B.g, B.G, B.a, B.A} -> "double"
    [] ch = B.s -> "str"
    [] ch = B.c -> "char"
    [] ch \in {B.p, B.n} -> "ptr"
    [] OTHER -> "none"

\* the C type the conversion byte makes format() fetch: "none" for '%',
\* "bad" for a byte that is no conversion
ConvType(ch) ==
  CASE ch = B.percent -> "none"
    [] ch \in {B.d, B.i} -> "int"
    [] ch \in {B.x, B.X, B.u, B.o} -> "uint"
    [] ch \in {B.f, B.F, B.e, B.E, B.g, B.G, B.a, B.A} -> "double"
    [] ch = B.s -> "str"
    [] ch = B.c -> "char"
    [] ch \in {B.p, B.n} -> "ptr"
    [] OTHER -> "bad"

\* what a read through the NULL pointer finds in this process: page 0 is not
\* mapped (the read kills the call) or holds some bytes up to a NUL
Unmapped == [known |-> TRUE, mapped |-> FALSE, s |-> <<>>]
Mapped(b) == [known |-> TRUE, mapped |-> TRUE, s |-> b]
Unread == [known |-> FALSE, mapped |-> FALSE, s |-> <<>>]

\* CStr::from_ptr(args.arg()): the bytes up to the NUL.  Nothing checks the
\* pointer, and reading through NULL is undefined: np is what the read can
\* find
from_ptr(v, np) ==
  IF v.t = "str" /\ v.n = 0
  THEN (IF np.known THEN {np} ELSE {Unmapped} \cup {Mapped(b) : b \in StrVals})
  ELSE {Mapped(v.s)}

\* the match on ch that builds the specifier from the fetched value v
MatchSpecifier(ch, length, v, str, written) ==
  CASE ch = B.percent -> Percent
    [] ch \in {B.d, B.i} -> Specifier("Int", parse_signed(length, v.n), <<>>, Variant(length))
    [] ch = B.x -> Specifier("Hex", parse_unsigned(length, v.n), <<>>, Variant(length))
    [] ch = B.X -> Specifier("UpperHex", parse_unsigned(length, v.n), <<>>, Variant(length))
    [] ch = B.u -> Specifier("Uint", parse_unsigned(length, v.n), <<>>, Variant(length))
    [] ch = B.o -> Specifier("Octal", parse_unsigned(length, v.n), <<>>, Variant(length))
    [] ch \in {B.f, B.F} -> Specifier("Double", v.n, <<>>, set_upper("Normal", is_ascii_uppercase(ch)))
    [] ch \in {B.e, B.E} -> Specifier("Double", v.n, <<>>, set_upper("Scientific", is_ascii_uppercase(ch)))
    [] ch \in {B.g, B.G} -> Specifier("Double", v.n, <<>>, set_upper("Auto", is_ascii_uppercase(ch)))
    [] ch \in {B.a, B.A} -> Specifier("Double", v.n, <<>>, set_upper("Hex", is_ascii_uppercase(ch)))
    [] ch = B.s -> Specifier("String", 0, str, "")
    [] ch = B.c -> Specifier("Char", v.n % 256, <<>>, "")
    [] ch = B.p -> Specifier("Pointer", v.n, <<>>, "")
    [] ch = B.n -> [Specifier("WriteBytesWritten", written, <<>>, "") EXCEPT !.ptr = v.n]
    [] OTHER -> Specifier("", 0, <<>>, "")

\* ---------------------------------------------------------------- actions
\* format() up to the loop: split the template and hand the first piece to
\* the sink
Begin ==
  /\ st[cur].pc = "idle"
  /\ \E o \in Handler(cur, Into(Bytes(Split(template)[1]))) :
       LET c1 == ErrStep([st[cur] EXCEPT !.pc = "loop"], Into(Bytes(Split(template)[1])), o)
       IN st' = [st EXCEPT ![cur] = c1]
  /\ UNCHANGED <<template, args, cur, nullpage, mem, vld>>

\* one iteration of the loop with last_was_percent set: the piece is text
LiteralAfterPercent ==
  /\ st[cur].pc = "loop"
  /\ st[cur].iter <= Len(Split(template))
  /\ st[cur].last_was_percent
  /\ \E o \in Handler(cur, Into(Bytes(Split(template)[st[cur].iter]))) :
       LET c1 == ErrStep([st[cur] EXCEPT !.last_was_percent = FALSE, !.iter = @ + 1],
                         Into(Bytes(Split(template)[st[cur].iter])), o)
       IN st' = [st EXCEPT ![cur] = c1]
  /\ UNCHANGED <<template, args, cur, nullpage, mem, vld>>

\* err!(handler(arg)) and then err!(handler(rest)) for the rest of the piece
Deliver(c3, arg, rest, isPercent) ==
  \E o1 \in Handler(cur, arg) :
    \E o2 \in Handler(cur, rest) :
      \E c4 \in {ErrStep([c3 EXCEPT !.last_was_percent = isPercent], arg, o1)} :
        st' = [st EXCEPT ![cur] =
                 IF Running(c4) THEN [ErrStep(c4, rest, o2) EXCEPT !.iter = @ + 1] ELSE c4]

\* the memory before any call: the caller's ints hold 0
Untouched == [p \in PtrVals \ {0} |-> 0]

\* the memory as it would be if the 'n' arm stored the count, as printf does
Stored_by_n(m, specifier) ==
  IF specifier.k = "WriteBytesWritten" /\ specifier.ptr \in DOMAIN m
  THEN [m EXCEPT ![specifier.ptr] = specifier.n] ELSE m

\* the memory after the match built the specifier: no arm stores anything,
\* the 'n' arm only puts written and the pointer into the directive
Stored(m, specifier) == m

\* the rest as it would be if it kept the conversion byte
rest_of_piece_whole(sub) == sub

\* the text after the conversion byte: Specifier::Bytes(next_char(sub))
rest_of_piece(sub) == next_char(sub)

\* the flag as it would be if the '%' arm did not set it
percent_arm_unset(ch) == FALSE

\* last_was_percent after the match: only the '%' arm sets it
percent_arm(ch) == ch = B.percent

\* the match on ch once the value vv is fetched and, for 's', read as rd
Match(c3, fl, w, p, ln, ch, vv, rd) ==
  /\ nullpage' = IF vv.t = "str" /\ vv.n = 0 THEN rd ELSE nullpage
  /\ mem' = Stored(mem, MatchSpecifier(ch, ln.length, vv, rd.s, c3.written))
  /\ IF ConvType(ch) = "bad"
     THEN st' = [st EXCEPT ![cur] = [c3 EXCEPT !.pc = "done", !.result = -1]]
     ELSE IF ~rd.mapped
     THEN st' = [st EXCEPT ![cur] = [c3 EXCEPT !.pc = "abort"]]
     ELSE \E arg \in {Argument(fl.flags, w.width, [some |-> p.some, v |-> p.v],
                                MatchSpecifier(ch, ln.length, vv, rd.s, c3.written))} :
            \E rest \in {Into(Bytes(rest_of_piece(ln.sub)))} :
              Deliver(c3, arg, rest, percent_arm(ch))

\* the conversion byte ch and the args.arg() its arm of the match makes
FetchValue(c2, a2, fl, w, p, ln, ch) ==
  LET nV == ConvType(ch) \notin {"none", "bad"}
  IN \E vv \in SlotVals(a2, nV, c2.cursor + 1, ConvType(ch)) :
       \E rd \in from_ptr(vv, nullpage) :
         \E c3 \in {IF nV THEN Fetch(c2, "value", vv) ELSE c2} :
           /\ args' = Extend(a2, nV, c2.cursor + 1, vv)
           /\ Match(c3, fl, w, p, ln, ch, vv, rd)

\* the selecting byte as it would be with '%' for every empty rest
conversion_byte_always_percent(sub, hasNext) ==
  IF Len(sub) > 0 THEN sub[1] ELSE B.percent

\* sub.get(0).unwrap_or(if next.is_some() { &b'%' } else { &0 })
conversion_byte(sub, hasNext) ==
  IF Len(sub) > 0 THEN sub[1] ELSE IF hasNext THEN B.percent ELSE B.nul

\* parse_length, then the byte that selects the conversion
AfterPrecision(c2, a2, hasNext, fl, w, p, ln) ==
  \E ch \in {conversion_byte(ln.sub, hasNext)} : FetchValue(c2, a2, fl, w, p, ln, ch)

\* An overflow of c_int arithmetic panics in a build with overflow checks
\* (the default of a debug build) and wraps in a build without them (the
\* default of a release build).
\* the call dies in the parser, with the arguments a read so far
Panic(c, a) ==
  /\ st' = [st EXCEPT ![cur] = [c EXCEPT !.pc = "panic"]]
  /\ args' = a
  /\ UNCHANGED <<nullpage, mem>>

\* parse_precision and the args.arg() of ".*"
AfterWidth(c1, a1, hasNext, fl, w) ==
  LET nP == PrecisionFetches(w.sub)
  IN \/ PrecisionOverflows(w.sub) /\ Panic(c1, a1)
     \/ \E pv \in SlotVals(a1, nP, c1.cursor + 1, "int") :
          \E c2 \in {IF nP THEN Fetch(c1, "precision", pv) ELSE c1} :
            \E a2 \in {Extend(a1, nP, c1.cursor + 1, pv)} :
              \E p \in {parse_precision(w.sub, pv.n)} :
                \E ln \in {parse_length(p.sub)} :
                  AfterPrecision(c2, a2, hasNext, fl, w, p, ln)

\* parse_width and the args.arg() of "*"
AfterFlags(c0, hasNext, fl) ==
  LET nW == WidthFetches(fl.sub)
  IN \/ WidthOverflows(fl.sub) /\ Panic(c0, args)
     \/ \E wv \in SlotVals(args, nW, c0.cursor + 1, "int") :
          \E c1 \in {IF nW THEN Fetch(c0, "width", wv) ELSE c0} :
            \E a1 \in {Extend(args, nW, c0.cursor + 1, wv)} :
              \E w \in {parse_width(fl.sub, wv.n)} :
                AfterWidth(c1, a1, hasNext, fl, w)

\* one iteration of the loop on a piece that follows a '%': parse the
\* conversion specification, fetch its arguments, hand the directive to the
\* sink and then the rest of the piece
Conversion ==
  /\ st[cur].pc = "loop"
  /\ st[cur].iter <= Len(Split(template))
  /\ ~st[cur].last_was_percent
  /\ \E fl \in {parse_flags(Split(template)[st[cur].iter])} :
       AfterFlags(st[cur], st[cur].iter < Len(Split(template)), fl)
  /\ UNCHANGED <<template, cur, vld>>

\* the loop is exhausted: format() returns written
Finish ==
  /\ st[cur].pc = "loop"
  /\ st[cur].iter > Len(Split(template))
  /\ st' = [st EXCEPT ![cur] = [st[cur] EXCEPT !.pc = "done", !.result = st[cur].written]]
  /\ UNCHANGED <<template, args, cur, nullpage, mem, vld>>

\* display(): the VaListDisplay before any formatting
display == [written |-> 0]

\* VaListDisplay::bytes_written
bytes_written(self) == self.written

\* self.written.set(bytes)
set_written(self, bytes) == [self EXCEPT !.written = bytes]

\* Display::fmt of the VaListDisplay: the call of format() with fmt_write(f)
\* has returned bytes; the cell takes it, the fmt::Result is Err for a
\* negative value, and the caller goes on to the next sink
VaListDisplay_fmt ==
  /\ cur = Sinks[1]
  /\ st[cur].pc = "done"
  /\ vld' = set_written(vld, st[cur].result)
  /\ cur' = Sinks[2]
  /\ UNCHANGED <<template, args, st, nullpage, mem>>

\* the caller calls format() on the same template and arguments with the
\* next sink
NextCall ==
  /\ ~Running(st[cur])
  /\ ~(cur = Sinks[1] /\ st[cur].pc = "done")
  /\ \E j \in 1..(Len(Sinks) - 1) : Sinks[j] = cur /\ cur' = Sinks[j + 1]
  /\ UNCHANGED <<template, args, st, nullpage, mem, vld>>

InitOn(chunks) ==
  /\ template \in Templates(chunks)
  /\ args = <<>>
  /\ cur = Sinks[1]
  /\ st = [s \in {Sinks[j] : j \in 1..Len(Sinks)} |-> NewCall]
  /\ nullpage = Unread
  /\ mem = Untouched
  /\ vld = display

Init == InitOn(Chunks)

Next == Begin \/ LiteralAfterPercent \/ Conversion \/ Finish \/ VaListDisplay_fmt \/ NextCall

Spec == Init /\ [][Next]_vars

\* the same calls on templates of text
InitText == InitOn(TextChunks)

SpecText == InitText /\ [][Next]_vars

\* the same calls on templates with %n
InitCount == InitOn(CountChunks)

SpecCount == InitCount /\ [][Next]_vars

\* ------------------------------------------------- calls on long digit runs
\* most digits of a digit run
MaxDigits == 10

\* runs of '9', the digits of the largest c_int and those of the number
\* after it
NineRuns == {Rep(B.nine, k) : k \in 0..MaxDigits}
IntMaxRun == Digits(CIntMax, 10, FALSE)
OverRun == SubSeq(IntMaxRun, 1, Len(IntMaxRun) - 1) \o <<B.zero + 8>>

\* a run in precision position of %d and of %s, the run that wraps to a
\* negative number in width position, and '*' with a negative argument in
\* either position, next to %d and %5d, and a run before the second '%' of
\* a pair
DigitInputs ==
  {[template |-> <<B.percent, B.dot>> \o r \o <<B.d>>, args |-> <<Arg("int", 7, <<>>)>>] :
     r \in NineRuns \cup {IntMaxRun, OverRun}}
  \cup {[template |-> <<B.percent, B.dot>> \o r \o <<B.s>>, args |-> <<Arg("str", 1, <<B.a, B.d>>)>>] :
     r \in NineRuns \cup {IntMaxRun, OverRun}}
  \cup {[template |-> <<B.percent>> \o r \o <<B.d>>, args |-> <<Arg("int", 7, <<>>)>>] :
     r \in {<<>>, <<B.zero + 5>>, OverRun}}
  \cup {[template |-> <<B.percent>> \o r \o <<B.d>>, args |-> <<Arg("int", v, <<>>), Arg("int", 7, <<>>)>>] :
     r \in {<<B.star>>, <<B.dot, B.star>>}, v \in {-5, 2}}
  \cup {[template |-> <<B.percent, B.dot>> \o r \o <<B.percent, B.d>>, args |-> <<>>] :
     r \in {<<>>, IntMaxRun, OverRun}}

InitDigits ==
  /\ \E inp \in DigitInputs : template = inp.template /\ args = inp.args
  /\ cur = Sinks[1]
  /\ st = [s \in {Sinks[j] : j \in 1..Len(Sinks)} |-> NewCall]
  /\ nullpage = Unread
  /\ mem = Untouched
  /\ vld = display

SpecDigits == InitDigits /\ [][Next]_vars

\* the same calls when the caller goes on as long as a call is left to make
\* and a call that is running takes its next step
FairSpec == InitDigits /\ [][Next]_vars /\ WF_vars(Next)

\* ------------------------------------- calls on text between conversions
\* the byte strings of templates that have the bytes of every parse phase
\* inside and outside a conversion specification: '%', a flag with a width,
\* a precision with a length modifier, and a conversion byte
PieceChunks == {<<B.percent>>, <<B.minus, B.zero + 5>>, <<B.dot, B.zero + 5, B.l>>, <<B.d>>}

InitPieces == InitOn(PieceChunks)

SpecPieces == InitPieces /\ [][Next]_vars

\* ---------------------------------------------------- calls on flag runs
\* most bytes of a flag run
MaxFlags == 3

\* the bytes the flag phase accepts
FlagBytes == {B.minus, B.plus, B.space, B.zero, B.quote, B.hash}

\* the flag runs, in every order and with repetitions
FlagRuns == UNION {[1..n -> FlagBytes] : n \in 0..MaxFlags}

\* %d of 7 with a flag run and no width, the width 5 or the width 50, and
\* with one flag at most before a "%%"
FlagInputs ==
  {[template |-> <<B.percent>> \o r \o w \o <<B.d>>, args |-> <<Arg("int", 7, <<>>)>>] :
     r \in FlagRuns, w \in {<<>>, <<B.zero + 5>>, <<B.zero + 5, B.zero>>}}
  \cup {[template |-> <<B.percent>> \o r \o <<B.d, B.percent, B.percent>>,
          args |-> <<Arg("int", 7, <<>>)>>] : r \in {q \in FlagRuns : Len(q) <= 1}}

InitFlags ==
  /\ \E inp \in FlagInputs : template = inp.template /\ args = inp.args
  /\ cur = Sinks[1]
  /\ st = [s \in {Sinks[j] : j \in 1..Len(Sinks)} |-> NewCall]
  /\ nullpage = Unread
  /\ mem = Untouched
  /\ vld = display

SpecFlags == InitFlags /\ [][Next]_vars

\* ------------------------------------- calls on one conversion specification
\* the largest width and the largest precision written in a template
MaxWidth == 4
MaxPrec == 3

\* the flag bytes of a set of flags, in a fixed order
FlagOrder == <<B.hash, B.minus, B.plus, B.space, B.zero>>
FlagString(fs) == SelectSeq(FlagOrder, LAMBDA b : b \in fs)

\* a width of 0 and a precision of -1 stand for none written
WidthString(w) == IF w = 0 THEN <<>> ELSE <<B.zero + w>>
PrecString(p) == IF p < 0 THEN <<>> ELSE <<B.dot, B.zero + p>>

LengthString(l) ==
  CASE l = "Char" -> <<B.h, B.h>> [] l = "Short" -> <<B.h>> [] l = "Long" -> <<B.l>>
    [] l = "LongLong" -> <<B.l, B.l>> [] l = "Usize" -> <<B.z>> [] l = "Isize" -> <<B.t>>
    [] OTHER -> <<>>

\* the template of one conversion specification
Directive(fs, w, p, l, ch) ==
  <<B.percent>> \o FlagString(fs) \o WidthString(w) \o PrecString(p) \o LengthString(l) \o <<ch>>

\* a call of format(): the template and the variadic arguments
Input(t, a) == [template |-> t, args |-> a]

Widths == 0..MaxWidth
Precs == {-1} \cup 0..MaxPrec
Lengths == {"Int", "Char", "Short", "Long", "LongLong", "Usize", "Isize"}

\* "ads" and "a" followed by U+00E9
TextArgs == {<<B.a, B.d, B.s>>, <<B.a, 195, 169>>}
SignedArgs == {-42, 7}
UnsignedArgs == {0, 255}
\* values whose low 8 or 16 bits differ from the value
NarrowArgs == {255, 511, 65535, -125}
\* 'a', U+00E9 and a value above 255 whose low byte is 'a'
CharArgs == {97, 233, 353}

StrInputs ==
  {Input(Directive(fs, w, p, "Int", B.s), <<Arg("str", 1, b)>>) :
     fs \in SUBSET {B.minus}, w \in Widths, p \in Precs, b \in TextArgs}

IntInputs ==
  {Input(Directive(fs, w, p, "Int", ch), <<Arg("int", v, <<>>)>>) :
     fs \in SUBSET {B.minus, B.plus, B.space, B.zero}, w \in Widths, p \in {-1, MaxPrec},
     ch \in {B.d, B.i}, v \in SignedArgs}

UintInputs ==
  {Input(Directive(fs, w, p, "Int", ch), <<Arg("uint", v, <<>>)>>) :
     fs \in SUBSET {B.hash, B.minus, B.plus, B.space, B.zero}, w \in Widths, p \in {-1, MaxPrec},
     ch \in {B.u, B.o, B.x, B.X}, v \in UnsignedArgs}

\* a negative int is passed to u and x only where the length cuts it down
LengthInputs ==
  {Input(Directive({}, 0, -1, l, B.d), <<Arg("int", v, <<>>)>>) : l \in Lengths, v \in NarrowArgs}
  \cup {Input(Directive({}, 0, -1, l, ch), <<Arg("int", v, <<>>)>>) :
          l \in Lengths, ch \in {B.u, B.x}, v \in {n \in NarrowArgs : n >= 0}}
  \cup {Input(Directive({}, 0, -1, l, ch), <<Arg("int", v, <<>>)>>) :
          l \in {"Char", "Short"}, ch \in {B.u, B.x}, v \in {n \in NarrowArgs : n < 0}}

CharInputs ==
  {Input(Directive(fs, w, -1, "Int", B.c), <<Arg("int", v, <<>>)>>) :
     fs \in SUBSET {B.minus}, w \in Widths, v \in CharArgs}

PercentInputs == {Input(Directive({}, w, -1, "Int", B.percent), <<>>) : w \in Widths}

DirectiveInputs ==
  StrInputs \cup IntInputs \cup UintInputs \cup LengthInputs \cup CharInputs \cup PercentInputs

InitDirective ==
  /\ \E inp \in DirectiveInputs : template = inp.template /\ args = inp.args
  /\ cur = Sinks[1]
  /\ st = [s \in {Sinks[j] : j \in 1..Len(Sinks)} |-> NewCall]
  /\ nullpage = Unread
  /\ mem = Untouched
  /\ vld = display

SpecDirective == InitDirective /\ [][Next]_vars


\* ------------------------------------------------- the printf grammar
\* A reading of the template by the printf grammar, written without the
\* parser's split: the properties below compare what format() does with it.
At(t, j) == IF j >= 1 /\ j <= Len(t) THEN t[j] ELSE B.nul

RefFlagBytes == {B.minus, B.plus, B.space, B.zero, B.quote, B.hash}
RefDigitBytes == B.zero..B.nine

RefConversions ==
  {B.d, B.i, B.u, B.o, B.x, B.X, B.f, B.F, B.e, B.E, B.g, B.G, B.a, B.A,
   B.s, B.c, B.p, B.n, B.percent}

RECURSIVE RefSkip(_, _, _)
\* the first position from j on whose byte is not in the set
RefSkip(t, j, set) == IF At(t, j) \in set THEN RefSkip(t, j + 1, set) ELSE j

\* the position after the length modifier that starts at j
RefSkipLength(t, j) ==
  IF At(t, j) = B.h /\ At(t, j + 1) = B.h THEN j + 2
  ELSE IF At(t, j) = B.l /\ At(t, j + 1) = B.l THEN j + 2
  ELSE IF At(t, j) \in {B.h, B.l, B.z, B.t} THEN j + 1
  ELSE j

RECURSIVE RefScan(_, _)
\* the tokens of t from position j on: a text byte, or a conversion
\* specification with its conversion byte ch (nul when the template ends
\* before it), the number of its '*' and the positions it spans
RefScan(t, j) ==
  IF j > Len(t) THEN <<>>
  ELSE IF t[j] # B.percent
  THEN <<[k |-> "lit", ch |-> t[j], stars |-> 0, first |-> j, last |-> j]>> \o RefScan(t, j + 1)
  ELSE LET a == RefSkip(t, j + 1, RefFlagBytes)
           sw == At(t, a) = B.star
           b == IF sw THEN a + 1 ELSE RefSkip(t, a, RefDigitBytes)
           dot == At(t, b) = B.dot
           sp == dot /\ At(t, b + 1) = B.star
           c == IF ~dot THEN b ELSE IF sp THEN b + 2 ELSE RefSkip(t, b + 1, RefDigitBytes)
           e == RefSkipLength(t, c)
       IN <<[k |-> "conv", ch |-> At(t, e),
             stars |-> (IF sw THEN 1 ELSE 0) + (IF sp THEN 1 ELSE 0),
             first |-> j, last |-> Min(e, Len(t))]>> \o RefScan(t, e + 1)

RefTokens == RefScan(template, 1)

\* the directive kind the grammar gives a conversion byte
RefKind(ch) ==
  CASE ch = B.percent -> "Percent"
    [] ch \in {B.d, B.i} -> "Int"
    [] ch = B.u -> "Uint"
    [] ch = B.o -> "Octal"
    [] ch = B.x -> "Hex"
    [] ch = B.X -> "UpperHex"
    [] ch \in {B.f, B.F, B.e, B.E, B.g, B.G, B.a, B.A} -> "Double"
    [] ch = B.s -> "String"
    [] ch = B.c -> "Char"
    [] ch = B.p -> "Pointer"
    [] ch = B.n -> "WriteBytesWritten"
    [] OTHER -> "?"

\* a "%%" pair
IsPair(tok) == tok.k = "conv" /\ tok.ch = B.percent /\ tok.last = tok.first + 1

\* the index of the first conversion specification whose conversion byte is
\* none of the conversions, 0 when there is none
FirstBad(toks) ==
  LET bad == {j \in 1..Len(toks) : toks[j].k = "conv" /\ toks[j].ch \notin RefConversions}
  IN IF bad = {} THEN 0 ELSE CHOOSE j \in bad : \A m \in bad : j <= m

RECURSIVE RefShape(_)
\* the tokens as text bytes and directive kinds
RefShape(toks) ==
  IF Len(toks) = 0 THEN <<>>
  ELSE <<[lit |-> toks[1].k = "lit",
          b |-> IF toks[1].k = "lit" THEN toks[1].ch ELSE 0,
          kind |-> IF toks[1].k = "lit" THEN "" ELSE RefKind(toks[1].ch)]>> \o RefShape(Tail(toks))

RECURSIVE Shape(_)
\* the directives a sink was handed, as text bytes and directive kinds
Shape(calls) ==
  IF Len(calls) = 0 THEN <<>>
  ELSE LET sp == calls[1].arg.specifier
       IN (IF sp.k = "Bytes"
           THEN [j \in 1..Len(sp.s) |-> [lit |-> TRUE, b |-> sp.s[j], kind |-> ""]]
           ELSE <<[lit |-> FALSE, b |-> 0, kind |-> sp.k]>>) \o Shape(Tail(calls))

IsPrefix(p, q) == Len(p) <= Len(q) /\ SubSeq(q, 1, Len(p)) = p

RECURSIVE SumRets(_)
SumRets(calls) == IF Len(calls) = 0 THEN 0 ELSE calls[1].ret + SumRets(Tail(calls))

SinkNames == {Sinks[j] : j \in 1..Len(Sinks)}
Provided == {"fmt", "io"}

\* the call returned a count
Succeeded(c) == c.pc = "done" /\ c.result >= 0

\* every sink invocation of the call returned, and none returned a negative value
NoRejection(c) == \A j \in 1..Len(c.calls) : c.calls[j].returned /\ c.calls[j].ret >= 0

\* ------------------------------------------------------------ properties
\* C1: whenever format() succeeds, the value it returns is the sum of the
\* values the sink returned over all its invocations in that call; with
\* fmt_write and io_write that sum is the number of bytes appended to the
\* destination.
C1_ReturnIsSumOfSinkReturns ==
  \A s \in SinkNames :
    Succeeded(st[s]) =>
      /\ st[s].result = SumRets(st[s].calls)
      /\ s \in Provided => st[s].result = Len(st[s].out)

\* C1 witness: a successful call with a provided sink that made several sink
\* invocations, one of them for a conversion with a fetched argument
C1_Witness ==
  /\ Succeeded(st["fmt"])
  /\ st["fmt"].result >= 3
  /\ Len(st["fmt"].calls) >= 3
  /\ st["fmt"].cursor >= 1
  /\ \E j \in 1..Len(st["fmt"].calls) : j >= 2 /\ st["fmt"].calls[j].ret >= 2

\* C2: once a sink invocation returns a negative value, format() has returned
\* exactly -1, that invocation is the last one of the call, and no variadic
\* argument is fetched after it.
C2_NegativeSinkReturnAborts ==
  \A s \in SinkNames :
    \A j \in 1..Len(st[s].calls) :
      (st[s].calls[j].returned /\ st[s].calls[j].ret < 0) =>
        /\ st[s].pc = "done"
        /\ st[s].result = -1
        /\ j = Len(st[s].calls)
        /\ st[s].cursor = st[s].calls[j].nfetch
        /\ \A m \in 1..Len(st[s].fetched) : st[s].fetched[m].ncalls < j

\* C2 witness: the handler returned -2 for a conversion directive while the
\* template still held a conversion that fetches, and format() is done
C2_Witness ==
  /\ st["custom"].pc = "done"
  /\ Len(st["custom"].calls) = 2
  /\ st["custom"].calls[2].ret = -2
  /\ st["custom"].calls[2].arg.specifier.k = "String"
  /\ template = <<B.percent, B.s, B.percent, B.s>>

\* the directives of the template before its first conversion specification
\* with an unknown conversion byte
BeforeFirstBad == RefShape(SubSeq(RefTokens, 1, FirstBad(RefTokens) - 1))

\* C3: when a conversion specification of the template has a conversion byte
\* that is none of d,i,u,o,x,X,f,F,e,E,g,G,a,A,s,c,p,n,%, the sink is never
\* handed anything for that specification or for what follows it, and a call
\* in which the sink accepted everything returns -1 after handing the sink
\* every directive before the specification exactly once, in template order.
C3_UnknownConversionReturnsMinusOne ==
  FirstBad(RefTokens) # 0 =>
    \A s \in SinkNames :
      /\ IsPrefix(Shape(st[s].calls), BeforeFirstBad)
      /\ st[s].pc = "done" => st[s].result = -1
      /\ (st[s].pc = "done" /\ NoRejection(st[s])) => Shape(st[s].calls) = BeforeFirstBad

\* C3 witness: "d%**" has been formatted into a byte buffer: the call
\* returned -1 on the unknown conversion byte '*' (the second one) after it
\* wrote the text before the specification
C3_Witness ==
  /\ template = <<B.d, B.percent, B.star, B.star>>
  /\ st["io"].pc = "done"
  /\ st["io"].result = -1
  /\ NoRejection(st["io"])
  /\ Len(st["io"].calls) = 1
  /\ st["io"].out = <<B.d>>

\* the template ends in a '%' that has no conversion byte and is not the
\* second half of a "%%" pair
TrailingPercent ==
  /\ Len(RefTokens) > 0
  /\ RefTokens[Len(RefTokens)].k = "conv"
  /\ RefTokens[Len(RefTokens)].first = Len(template)

\* C4 as stated: a template that ends in such a '%', and has no other unknown
\* conversion, makes format() return a count
C4_TrailingPercentEndsWithoutError ==
  \A s \in SinkNames :
    (/\ TrailingPercent
     /\ FirstBad(RefTokens) = Len(RefTokens)
     /\ st[s].pc = "done"
     /\ NoRejection(st[s])) => st[s].result >= 0

\* C4: a template that ends in a '%' with no conversion byte makes format()
\* return -1: the NUL stands in conversion position and is no conversion; when
\* that '%' is the only unknown conversion and the sink accepted everything,
\* the sink was handed every directive before it.
C4_TrailingPercentReturnsMinusOne ==
  \A s \in SinkNames :
    (TrailingPercent /\ st[s].pc = "done") =>
      /\ st[s].result = -1
      /\ (FirstBad(RefTokens) = Len(RefTokens) /\ NoRejection(st[s])) =>
            Shape(st[s].calls) = RefShape(SubSeq(RefTokens, 1, Len(RefTokens) - 1))

\* C4 witness: "%%%" has been formatted into a String: one '%' is written and
\* the call returned -1
C4_Witness ==
  /\ template = <<B.percent, B.percent, B.percent>>
  /\ st["fmt"].pc = "done"
  /\ st["fmt"].result = -1
  /\ st["fmt"].out = <<B.percent>>

\* the conversion specifications of the template, in order
ConvTokens == SelectSeq(RefTokens, LAMBDA tok : tok.k = "conv")

\* the index in calls of the j-th invocation for a directive that is not text
ConvCall(calls, j) ==
  LET idx == {i \in 1..Len(calls) : calls[i].arg.specifier.k # "Bytes"}
  IN CHOOSE i \in idx : Cardinality({m \in idx : m <= i}) = j

\* the number of args.arg() made between invocation i - 1 and invocation i
FetchesFor(c, i) == Cardinality({m \in 1..Len(c.fetched) : c.fetched[m].ncalls = i - 1})

\* the bytes of a template whose conversion specifications are all "%%"
\* pairs, each pair replaced by one '%'
PairsAsPercent == [j \in 1..Len(RefTokens) |->
                     IF RefTokens[j].k = "lit" THEN RefTokens[j].ch ELSE B.percent]

\* C5: in a call that succeeds, the sink is handed the directives of the
\* template in order with the text bytes unchanged; every "%%" pair, wherever
\* it stands, gives exactly one Percent directive for which no argument is
\* fetched and for which fmt_write and io_write write one '%' byte; a template
\* whose only conversion specifications are k "%%" pairs is written with each
\* pair as one '%', fetches nothing and returns the number of bytes written
\* (k for k adjacent pairs).
C5_PercentPairGivesOnePercent ==
  \A s \in SinkNames :
    Succeeded(st[s]) =>
      /\ Shape(st[s].calls) = RefShape(RefTokens)
      /\ \A j \in 1..Len(ConvTokens) :
           IsPair(ConvTokens[j]) =>
             LET i == ConvCall(st[s].calls, j)
             IN /\ st[s].calls[i].arg = Into(Percent)
                /\ FetchesFor(st[s], i) = 0
                /\ s \in Provided => st[s].calls[i].ret = 1
      /\ (s \in Provided /\ \A j \in 1..Len(ConvTokens) : IsPair(ConvTokens[j])) =>
           /\ st[s].out = PairsAsPercent
           /\ st[s].result = Len(RefTokens)
           /\ st[s].cursor = 0

\* C5 witness: "%%%%" has been formatted into a byte buffer: "%%" is written
\* and 2 returned
C5_Witness ==
  /\ template = <<B.percent, B.percent, B.percent, B.percent>>
  /\ st["io"].pc = "done"
  /\ st["io"].result = 2
  /\ st["io"].out = <<B.percent, B.percent>>
  /\ st["io"].cursor = 0

\* C6: for a template that holds no '%' (the empty one included), format()
\* hands the sink the bytes of the template in one directive of text with no
\* flags, width or precision, fetches no argument, and returns what the sink
\* returned; io_write writes exactly the template and the call returns its
\* length, and so does fmt_write unless the template is not UTF-8, which that
\* sink rejects.
C6_TemplateWithoutPercent ==
  (\A j \in 1..Len(template) : template[j] # B.percent) =>
    \A s \in SinkNames :
      /\ Len(st[s].fetched) = 0 /\ st[s].cursor = 0
      /\ st[s].pc # "abort"
      /\ IF st[s].pc = "idle" THEN Len(st[s].calls) = 0
         ELSE /\ Len(st[s].calls) = 1
              /\ st[s].calls[1].arg = Into(Bytes(template))
      /\ st[s].pc = "done" =>
           /\ st[s].result = IF st[s].calls[1].ret < 0 THEN -1 ELSE st[s].calls[1].ret
           /\ s = "io" => st[s].out = template /\ st[s].result = Len(template)
           /\ s = "fmt" => IF from_utf8(template)
                           THEN st[s].out = template /\ st[s].result = Len(template)
                           ELSE st[s].out = <<>> /\ st[s].result = -1

\* C6 witness: a template of 'a' and U+00E9 has been formatted into a String
\* and into a byte buffer, and both calls returned its 3 bytes
C6_Witness ==
  /\ template = <<B.a, 195, 169>>
  /\ st["fmt"].pc = "done" /\ st["fmt"].result = 3
  /\ st["io"].pc = "done" /\ st["io"].result = 3
  /\ st["io"].out = template

\* the place of a fetch within its conversion specification
RoleRank(role) == CASE role = "width" -> 1 [] role = "precision" -> 2 [] OTHER -> 3

\* the fetches made for invocation i, as indexes into fetched
FetchSet(c, i) == {m \in 1..Len(c.fetched) : c.fetched[m].ncalls = i - 1}

\* C7: the arguments are read strictly left to right, the m-th fetch of a
\* call reading the m-th argument; within one conversion specification a '*'
\* width is fetched first, a '*' precision next and the value of the
\* conversion last, each at most once; the directive handed to the sink
\* carries the fetched ints as its width and precision and the fetched value
\* as its value, and the number of width and precision fetches is the number
\* of '*' in the specification.
C7_FetchOrderWithinSpecification ==
  \A s \in SinkNames :
    LET c == st[s] IN
    /\ Len(c.fetched) <= Len(args)
    /\ c.cursor = Len(c.fetched)
    /\ \A m \in 1..Len(c.fetched) : c.fetched[m].val = args[m]
    /\ \A m, q \in 1..Len(c.fetched) :
         (m < q /\ c.fetched[m].ncalls = c.fetched[q].ncalls) =>
            RoleRank(c.fetched[m].role) < RoleRank(c.fetched[q].role)
    /\ \A i \in 1..Len(c.calls) :
         \A m \in FetchSet(c, i) :
           LET a == c.calls[i].arg
               f == c.fetched[m]
           IN CASE f.role = "width" -> a.width = f.val.n
                [] f.role = "precision" -> a.precision = Some(f.val.n)
                [] OTHER -> /\ a.specifier.k = "Int" => a.specifier.n = f.val.n
                            /\ (a.specifier.k = "String" /\ f.val # NullPtr) =>
                                  a.specifier.s = f.val.s
    /\ \A j \in 1..Len(ConvTokens) :
         j <= Cardinality({i \in 1..Len(c.calls) : c.calls[i].arg.specifier.k # "Bytes"}) =>
           LET i == ConvCall(c.calls, j)
           IN /\ Cardinality({m \in FetchSet(c, i) : c.fetched[m].role # "value"})
                   = ConvTokens[j].stars
              /\ Cardinality({m \in FetchSet(c, i) : c.fetched[m].role = "value"})
                   = IF c.calls[i].arg.specifier.k = "Percent" THEN 0 ELSE 1

\* C7 witness: "%*.*d" has been formatted with the arguments 3, 1, -1: they
\* were fetched in this order as width, precision and value
C7_Witness ==
  /\ template = <<B.percent, B.star, B.dot, B.star, B.d>>
  /\ st["fmt"].pc = "done"
  /\ Len(st["fmt"].fetched) = 3
  /\ st["fmt"].fetched[1] = [role |-> "width", val |-> Arg("int", 3, <<>>), ncalls |-> 1]
  /\ st["fmt"].fetched[2] = [role |-> "precision", val |-> Arg("int", 1, <<>>), ncalls |-> 1]
  /\ st["fmt"].fetched[3] = [role |-> "value", val |-> Arg("int", -1, <<>>), ncalls |-> 1]
  /\ st["fmt"].calls[2].arg.width = 3
  /\ st["fmt"].calls[2].arg.precision = Some(1)
  /\ st["fmt"].calls[2].arg.specifier.n = -1

RECURSIVE SumStars(_)
\* the number of '*' in width or precision position
SumStars(toks) == IF Len(toks) = 0 THEN 0 ELSE toks[1].stars + SumStars(Tail(toks))

\* the invocations of a call for a conversion other than '%'
ValueCalls(c) == {i \in 1..Len(c.calls) : c.calls[i].arg.specifier.k \notin {"Bytes", "Percent"}}

\* C8: in a call that succeeds, the number of fetches is the number of
\* directives handed to the sink that are neither text nor Percent plus the
\* number of '*' in width or precision position; those directives are the
\* conversion specifications of the template whose conversion byte is not
\* '%', each fetches exactly one argument for its value, and text and Percent
\* directives fetch none for a value.
C8_FetchCount ==
  \A s \in SinkNames :
    Succeeded(st[s]) =>
      /\ Len(st[s].fetched) = Cardinality(ValueCalls(st[s])) + SumStars(RefTokens)
      /\ Cardinality(ValueCalls(st[s]))
           = Cardinality({j \in 1..Len(ConvTokens) : ConvTokens[j].ch # B.percent})
      /\ \A i \in 1..Len(st[s].calls) :
           /\ Cardinality({m \in FetchSet(st[s], i) : st[s].fetched[m].role = "value"})
                = IF i \in ValueCalls(st[s]) THEN 1 ELSE 0
           /\ st[s].calls[i].arg.specifier.k = "Bytes" => FetchSet(st[s], i) = {}

\* C8 witness: "%*ds" has been formatted into a byte buffer with two fetches,
\* one for the '*' and one for the value of %d
C8_Witness ==
  /\ template = <<B.percent, B.star, B.d, B.s>>
  /\ Succeeded(st["io"])
  /\ Len(st["io"].fetched) = 2
  /\ Len(st["io"].calls) = 3
  /\ st["io"].calls[2].arg.specifier.k = "Int"

\* every string a call of s was handed for %s is UTF-8
StringsAreUtf8(c) ==
  \A i \in 1..Len(c.calls) :
    c.calls[i].arg.specifier.k = "String" => from_utf8(c.calls[i].arg.specifier.s)

\* C9 as stated: once format() has returned for the same template and
\* arguments with fmt_write and with io_write, no argument being NULL and the
\* strings being UTF-8, both calls returned the same value and wrote the same
\* bytes
C9_TextAndByteSinksAgree ==
  (/\ st["fmt"].pc = "done" /\ st["io"].pc = "done"
   /\ \A m \in 1..Len(args) : args[m] # NullPtr
   /\ StringsAreUtf8(st["fmt"]) /\ StringsAreUtf8(st["io"])) =>
     /\ st["fmt"].result = st["io"].result
     /\ st["fmt"].out = st["io"].out

\* the bytes of "(null)"
NullText == <<40, B.n, B.u, B.l, B.l, 41>>

\* C10 as stated: once format() has returned or died on "%s" with a NULL
\* argument, with fmt_write or io_write, it has written "(null)" and
\* returned 6
C10_NullStringIsRenderedAsNullText ==
  \A s \in Provided :
    (/\ template = <<B.percent, B.s>>
     /\ ~Running(st[s])
     /\ Len(st[s].fetched) = 1
     /\ st[s].fetched[1].val = NullPtr) =>
       /\ st[s].pc = "done"
       /\ st[s].out = NullText
       /\ st[s].result = 6

\* ------------------------------------ properties of one conversion directive
\* the call was made on a template that is one conversion specification, and
\* has handed the sink its directive
OneConversion(c) ==
  /\ Len(RefTokens) = 1 /\ RefTokens[1].k = "conv"
  /\ Len(c.calls) >= 2
  /\ c.calls[1].arg = Into(Bytes(<<>>))

\* ... and has returned a count, so that what was written is the rendering
\* of that directive
Rendered(c) == OneConversion(c) /\ Succeeded(c) /\ Len(c.calls) = 3

\* ... and has returned or died
Settled(c) == OneConversion(c) /\ ~Running(c)

\* the directive of the conversion specification
Conv(c) == c.calls[2].arg

\* n spaces
Spaces(n) == [j \in 1..n |-> B.space]

\* C11 as stated: once format() has returned or died on a %s whose string S is
\* UTF-8, with fmt_write or io_write, it has written the first min(p, |S|)
\* bytes of S (all of S without a precision), with spaces up to the width
\* after them under LEFT_ALIGN and before them otherwise, and returned the
\* number of bytes
C11_StringTruncatedAndPaddedInBytes ==
  \A s \in Provided :
    (/\ Settled(st[s])
     /\ Conv(st[s]).specifier.k = "String"
     /\ Conv(st[s]).width >= 0
     /\ from_utf8(Conv(st[s]).specifier.s)) =>
       LET a == Conv(st[s])
           S == a.specifier.s
           body == IF a.precision.some /\ a.precision.v >= 0 /\ a.precision.v < Len(S)
                   THEN SubSeq(S, 1, a.precision.v) ELSE S
           pad == Spaces(a.width - Len(body))
       IN /\ st[s].pc = "done"
          /\ st[s].out = IF "LEFT_ALIGN" \in a.flags THEN body \o pad ELSE pad \o body
          /\ st[s].result = IF a.width > Len(body) THEN a.width ELSE Len(body)

RECURSIVE Decimal(_)
\* the decimal digits of n >= 0
Decimal(n) == IF n < 10 THEN <<B.zero + n>> ELSE Decimal(n \div 10) \o <<B.zero + (n % 10)>>

Abs(n) == IF n < 0 THEN -n ELSE n

\* the first byte of out that is no space (out holds one)
FirstNonSpace(out) ==
  out[CHOOSE k \in 1..Len(out) : out[k] # B.space /\ \A m \in 1..(k - 1) : out[m] = B.space]

\* the number of bytes of out in the set
CountIn(out, set) == Cardinality({k \in 1..Len(out) : out[k] \in set})

\* C12: when format() has returned a count for a %d or %i with fmt_write or
\* io_write, the output holds its sign in front of the digits: '-' for a
\* negative value; otherwise '+' under PREPEND_PLUS, with no space in front of
\* it unless the width asks for padding, also when PREPEND_SPACE is set;
\* otherwise a leading ' ' under PREPEND_SPACE; otherwise no sign at all;
\* whatever LEFT_ALIGN, PREPEND_ZERO and the width are.
C12_SignOfSignedConversion ==
  \A s \in Provided :
    (Rendered(st[s]) /\ Conv(st[s]).specifier.k = "Int") =>
      LET a == Conv(st[s])
          v == a.specifier.n
          out == st[s].out
          d == Len(Decimal(Abs(v)))
      IN /\ CountIn(out, B.zero..B.nine) >= d
         /\ IF v < 0
            THEN /\ FirstNonSpace(out) = B.minus
                 /\ CountIn(out, {B.minus}) = 1 /\ CountIn(out, {B.plus}) = 0
            ELSE IF "PREPEND_PLUS" \in a.flags
            THEN /\ FirstNonSpace(out) = B.plus
                 /\ CountIn(out, {B.plus}) = 1 /\ CountIn(out, {B.minus}) = 0
                 /\ a.width <= d + 1 => out[1] = B.plus
            ELSE IF "PREPEND_SPACE" \in a.flags
            THEN /\ out[1] = B.space
                 /\ CountIn(out, {B.plus, B.minus}) = 0
            ELSE /\ FirstNonSpace(out) \in B.zero..B.nine
                 /\ CountIn(out, {B.plus, B.minus}) = 0
                 /\ a.width <= d => out[1] \in B.zero..B.nine

\* C12 witness: "%+ d" with 7 has been written as "+7" into a byte buffer
C12_Witness ==
  /\ template = Directive({B.plus, B.space}, 0, -1, "Int", B.d)
  /\ args = <<Arg("int", 7, <<>>)>>
  /\ Rendered(st["io"])
  /\ st["io"].out = <<B.plus, B.zero + 7>>

\* C13 as stated: once format() has returned or died on a %d or %i with no
\* precision and a width w >= 0, with fmt_write or io_write, it has written
\* and returned exactly max(w, s + d) bytes, d being the number of digits and
\* s being 1 when a sign byte ('-', '+' or the space of PREPEND_SPACE) is due
C13_SignedFieldLength ==
  \A s \in Provided :
    (/\ Settled(st[s])
     /\ Conv(st[s]).specifier.k = "Int"
     /\ ~Conv(st[s]).precision.some
     /\ Conv(st[s]).width >= 0) =>
       LET a == Conv(st[s])
           d == Len(Decimal(Abs(a.specifier.n)))
           sg == IF a.specifier.n < 0 \/ "PREPEND_PLUS" \in a.flags \/ "PREPEND_SPACE" \in a.flags
                 THEN 1 ELSE 0
           len == IF a.width > sg + d THEN a.width ELSE sg + d
       IN /\ st[s].pc = "done"
          /\ Len(st[s].out) = len
          /\ st[s].result = len

\* the directive kinds of the integer conversions d, i, u, o, x, X
IntegerKinds == {"Int", "Uint", "Octal", "Hex", "UpperHex"}

\* the bytes that are digits in some base up to 16
DigitBytes == (B.zero..B.nine) \cup (B.a..B.f) \cup (B.A..70)

\* C14 as stated: when format() has returned a count for an integer
\* conversion with a precision p, with fmt_write or io_write, it has written
\* at least p digits (next to the '0' of an alternate-form prefix)
C14_PrecisionIsMinimumDigitCount ==
  \A s \in Provided :
    (/\ Rendered(st[s])
     /\ Conv(st[s]).specifier.k \in IntegerKinds
     /\ Conv(st[s]).precision.some) =>
       /\ CountIn(st[s].out, DigitBytes)
            >= Conv(st[s]).precision.v
               + (IF "ALTERNATE_FORM" \in Conv(st[s]).flags
                     /\ Conv(st[s]).specifier.k \in {"Octal", "Hex", "UpperHex"} THEN 1 ELSE 0)

RECURSIVE InBase(_, _)
\* the number of digits of n >= 0 in the base
InBase(n, base) == IF n < base THEN 1 ELSE 1 + InBase(n \div base, base)

\* the base of an integer directive kind
KindBase(k) == CASE k \in {"Hex", "UpperHex"} -> 16 [] k = "Octal" -> 8 [] OTHER -> 10

\* the number of sign bytes of an integer directive
SignLen(a) ==
  IF a.specifier.k = "Int" /\ (\/ a.specifier.n < 0
                               \/ "PREPEND_PLUS" \in a.flags
                               \/ "PREPEND_SPACE" \in a.flags)
  THEN 1 ELSE 0

\* the number of bytes of its alternate-form prefix
PrefixLen(a) ==
  IF "ALTERNATE_FORM" \in a.flags /\ a.specifier.k \in {"Octal", "Hex", "UpperHex"} THEN 2 ELSE 0

\* the number of digits due: those of the value, or the precision if larger
DigitsDue(a) ==
  LET d == InBase(Abs(a.specifier.n), KindBase(a.specifier.k))
  IN IF a.precision.some /\ a.precision.v > d THEN a.precision.v ELSE d

\* C15 as stated: when format() has returned a count for an integer
\* conversion whose width exceeds the sign, prefix and digits, with fmt_write
\* or io_write, the field has the width and is filled with '0' after the sign
\* and prefix if PREPEND_ZERO is set, LEFT_ALIGN is not and no precision is
\* given; with spaces on the right under LEFT_ALIGN; with spaces on the left
\* otherwise, so also for PREPEND_ZERO with a precision
C15_ZeroFillOnlyWithoutPrecision ==
  \A s \in Provided :
    (/\ Rendered(st[s])
     /\ Conv(st[s]).specifier.k \in IntegerKinds
     /\ Conv(st[s]).width > SignLen(Conv(st[s])) + PrefixLen(Conv(st[s])) + DigitsDue(Conv(st[s]))) =>
       LET a == Conv(st[s])
           out == st[s].out
           head == SignLen(a) + PrefixLen(a)
           pad == a.width - head - DigitsDue(a)
       IN /\ Len(out) = a.width
          /\ IF "LEFT_ALIGN" \in a.flags
             THEN \A k \in (a.width - pad + 1)..a.width : out[k] = B.space
             ELSE IF "PREPEND_ZERO" \in a.flags /\ ~a.precision.some
             THEN \A k \in (head + 1)..(head + pad) : out[k] = B.zero
             ELSE \A k \in 1..pad : out[k] = B.space

RECURSIVE Numeral(_, _, _)
\* the digits of n >= 0 in the base, the letters taken from 'a' or from 'A' on
Numeral(n, base, letterA) ==
  LET r == n % base
      ch == IF r < 10 THEN B.zero + r ELSE letterA + r - 10
  IN IF n < base THEN <<ch>> ELSE Numeral(n \div base, base, letterA) \o <<ch>>

\* what u, o, x and X write for a directive without precision, going by
\* LEFT_ALIGN, PREPEND_ZERO and ALTERNATE_FORM alone: the prefix is "0x"
\* for x and for X ("0o" for o), and counts toward the width
UnsignedField(a) ==
  LET k == a.specifier.k
      digits == Numeral(a.specifier.n, KindBase(k), IF k = "UpperHex" THEN B.A ELSE B.a)
      prefix == IF "ALTERNATE_FORM" \notin a.flags THEN <<>>
                ELSE IF k \in {"Hex", "UpperHex"} THEN <<B.zero, B.x>>
                ELSE IF k = "Octal" THEN <<B.zero, B.o>> ELSE <<>>
      pad == a.width - Len(prefix) - Len(digits)
  IN IF "LEFT_ALIGN" \in a.flags THEN prefix \o digits \o Spaces(pad)
     ELSE IF "PREPEND_ZERO" \in a.flags THEN prefix \o [j \in 1..pad |-> B.zero] \o digits
     ELSE Spaces(pad) \o prefix \o digits

AtLength(l, v, signed) ==
  LET bits == IF l = "Char" THEN 8 ELSE 16
      low == v % (2 ^ bits)
  IN IF l \notin {"Char", "Short"} THEN v
     ELSE IF signed /\ low >= 2 ^ (bits - 1) THEN low - 2 ^ bits ELSE low

\* a signed decimal number
SignedDecimal(n) == IF n < 0 THEN <<B.minus>> \o Decimal(-n) ELSE Decimal(n)

\* C17: when format() has returned a count for a d, u or x with a length
\* modifier and nothing else, with fmt_write or io_write, the output is the
\* number the argument has at that length: for hh its low 8 bits and for h
\* its low 16 bits, sign-extended for d and unsigned for u and x; the
\* argument itself for the other lengths.
C17_LengthModifierNarrows ==
  \A s \in Provided :
    (Rendered(st[s]) /\ Conv(st[s]).specifier.k \in {"Int", "Uint", "Hex"}) =>
      \A l \in Lengths :
        /\ template = Directive({}, 0, -1, l, B.d) =>
              st[s].out = SignedDecimal(AtLength(l, args[1].n, TRUE))
        /\ template = Directive({}, 0, -1, l, B.u) =>
              st[s].out = Decimal(AtLength(l, args[1].n, FALSE))
        /\ template = Directive({}, 0, -1, l, B.x) =>
              st[s].out = Numeral(AtLength(l, args[1].n, FALSE), 16, B.a)

\* C17 witness: "%hhd" with 255 has been written as "-1" into a byte buffer
C17_Witness ==
  /\ template = Directive({}, 0, -1, "Char", B.d)
  /\ args = <<Arg("int", 255, <<>>)>>
  /\ Rendered(st["io"])
  /\ st["io"].out = <<B.minus, B.zero + 1>>

\* C18 as stated: once format() has returned or died on a %c, with fmt_write
\* or io_write, it has written exactly one byte, the low byte of the int
\* argument, with spaces up to the width after it under LEFT_ALIGN and before
\* it otherwise, and returned max(width, 1)
C18_CharIsOneByte ==
  \A s \in Provided :
    (/\ Settled(st[s])
     /\ Conv(st[s]).specifier.k = "Char"
     /\ Conv(st[s]).width >= 0) =>
       LET a == Conv(st[s])
           byte == <<args[1].n % 256>>
           pad == Spaces(a.width - 1)
       IN /\ st[s].pc = "done"
          /\ st[s].out = IF "LEFT_ALIGN" \in a.flags THEN byte \o pad ELSE pad \o byte
          /\ st[s].result = IF a.width > 1 THEN a.width ELSE 1

\* the directives of the call that carry a %n
CountCalls(c) == {i \in 1..Len(c.calls) : c.calls[i].arg.specifier.k = "WriteBytesWritten"}

\* C19 as stated: when a call with fmt_write or io_write has handed the sink
\* a WriteBytesWritten directive, the sink returned a negative value for it
\* and format() returned -1
C19_CountDirectiveIsAnError ==
  \A s \in Provided :
    \A i \in CountCalls(st[s]) :
      (st[s].calls[i].returned /\ ~Running(st[s])) =>
        /\ st[s].calls[i].ret < 0
        /\ st[s].pc = "done"
        /\ st[s].result = -1

\* C20: with any sink, the count a WriteBytesWritten directive carries is
\* the sum of the sink's return values for the directives handed over before
\* it in the same call, its pointer is the one argument fetched for that
\* conversion, and the ints the caller's pointers refer to keep their values
C20_CountIsCarriedNotStored ==
  /\ mem = Untouched
  /\ \A s \in SinkNames :
       \A i \in CountCalls(st[s]) :
         /\ st[s].calls[i].arg.specifier.n = SumRets(SubSeq(st[s].calls, 1, i - 1))
         /\ \E m \in FetchSet(st[s], i) :
              /\ FetchSet(st[s], i) = {m}
              /\ st[s].fetched[m].role = "value"
              /\ st[s].fetched[m].val.t = "ptr"
              /\ st[s].fetched[m].val.n = st[s].calls[i].arg.specifier.ptr

\* C20 witness: "%d%n" has been formatted into a byte buffer with a pointer
\* that is not NULL; the %n directive carried the bytes of the number, and
\* the int at the pointer still holds 0
C20_Witness ==
  /\ template = <<B.percent, B.d, B.percent, B.n>>
  /\ ~Running(st["io"])
  /\ \E i \in CountCalls(st["io"]) :
       /\ st["io"].calls[i].arg.specifier.n >= 1
       /\ st["io"].calls[i].arg.specifier.ptr \in DOMAIN mem
       /\ mem[st["io"].calls[i].arg.specifier.ptr] = 0

\* Display::fmt of the VaListDisplay has returned
Displayed == cur # Sinks[1] /\ st[Sinks[1]].pc = "done"

\* C21 as stated: bytes_written() is 0 before any formatting, and after
\* Display::fmt has returned it is the number of bytes that formatting
\* wrote, or 0 if the formatting ended in an error
C21_BytesWrittenIsZeroAfterError ==
  bytes_written(vld) =
    IF ~Displayed THEN 0
    ELSE IF st[Sinks[1]].result < 0 THEN 0 ELSE Len(st[Sinks[1]].out)

\* C22 as stated: no call of format() dies in the parser; the one place
\* where it can is the accumulation width * 10 + digit of a digit run, when
\* it leaves the c_int range
C22_FormatNeverPanics ==
  \A s \in SinkNames : st[s].pc # "panic"

\* C23 as stated: in every directive handed to a sink the width is not
\* negative and the precision is unset or not negative, whatever the digit
\* runs of the template and the ints fetched for '*'; the precision of a
\* conversion is set exactly when its specification holds a '.'
C23_WidthAndPrecisionNotNegative ==
  \A s \in SinkNames :
    /\ \A i \in 1..Len(st[s].calls) :
         /\ st[s].calls[i].arg.width >= 0
         /\ st[s].calls[i].arg.precision.some => st[s].calls[i].arg.precision.v >= 0
    /\ Len(st[s].calls) >= 2 =>
         (st[s].calls[2].arg.precision.some <=> \E j \in 1..Len(template) : template[j] = B.dot)

\* the flags by their bytes
FlagTable ==
  {<<B.minus, "LEFT_ALIGN">>, <<B.plus, "PREPEND_PLUS">>, <<B.space, "PREPEND_SPACE">>,
   <<B.zero, "PREPEND_ZERO">>, <<B.quote, "THOUSANDS_GROUPING">>, <<B.hash, "ALTERNATE_FORM">>}

\* the length of the longest prefix of piece made of flag bytes
FlagRunLen(piece) ==
  CHOOSE k \in 0..Len(piece) :
    /\ \A j \in 1..k : \E q \in FlagTable : q[1] = piece[j]
    /\ k < Len(piece) => \A q \in FlagTable : q[1] # piece[k + 1]

\* the flags whose bytes occur among the first k bytes of piece
FlagsAmong(piece, k) == {q[2] : q \in {q \in FlagTable : \E j \in 1..k : piece[j] = q[1]}}

RECURSIVE DigitsValue(_, _, _)
\* the number the digits of piece from position j on spell, after acc
DigitsValue(piece, j, acc) ==
  IF j > Len(piece) \/ piece[j] < B.zero \/ piece[j] > B.nine THEN acc
  ELSE DigitsValue(piece, j + 1, acc * 10 + (piece[j] - B.zero))

\* C24: the directive of a conversion specification has the flags whose
\* bytes occur in the longest prefix of flag bytes, whatever their order and
\* however often they occur, and its width is the number spelled by the
\* digits after that prefix, so a '0' within the prefix is PREPEND_ZERO and
\* no width digit; the prefix never keeps the conversion from being handed
\* to the sink.
C24_FlagRunGivesFlagSet ==
  \A s \in SinkNames :
    LET piece == SubSeq(template, 2, Len(template))
    IN /\ Len(st[s].calls) >= 2 =>
            /\ st[s].calls[2].arg.flags = FlagsAmong(piece, FlagRunLen(piece))
            /\ st[s].calls[2].arg.width = DigitsValue(piece, FlagRunLen(piece) + 1, 0)
            /\ st[s].calls[2].arg.specifier.k = "Int"
       /\ (st[s].pc = "done" /\ NoRejection(st[s])) => Len(st[s].calls) >= 3

\* C24 witness: "%0-05d" has been handed to the caller's handler with the
\* flags LEFT_ALIGN and PREPEND_ZERO and the width 5
C24_Witness ==
  /\ template = <<B.percent, B.zero, B.minus, B.zero, B.zero + 5, B.d>>
  /\ Len(st["custom"].calls) = 3
  /\ st["custom"].calls[2].arg.flags = {"LEFT_ALIGN", "PREPEND_ZERO"}
  /\ st["custom"].calls[2].arg.width = 5

\* the i-th directive handed to the sink is text
IsText(c, i) == c.calls[i].arg.specifier.k = "Bytes"

\* C25 as stated: in a call that succeeds, the directives handed to the sink
\* are by turns text and a conversion, the first one text
C25_StrictAlternation ==
  \A s \in SinkNames :
    Succeeded(st[s]) =>
      \A i \in 1..Len(st[s].calls) : IsText(st[s], i) <=> i % 2 = 1

\* C25: in a call that succeeds, the first directive handed to the sink is
\* text, and every conversion directive stands between two text directives,
\* so no two conversion directives are consecutive; two text directives are
\* consecutive exactly after a Percent directive, which is followed by the
\* empty rest of its piece and then by the next piece as text.
C25_AlternationExceptAfterPercent ==
  \A s \in SinkNames :
    Succeeded(st[s]) =>
      /\ Len(st[s].calls) >= 1
      /\ IsText(st[s], 1)
      /\ \A i \in 1..Len(st[s].calls) :
           /\ ~IsText(st[s], i) =>
                /\ i > 1 /\ i < Len(st[s].calls)
                /\ IsText(st[s], i - 1)
                /\ IsText(st[s], i + 1)
           /\ (i < Len(st[s].calls) /\ IsText(st[s], i) /\ IsText(st[s], i + 1)) =>
                /\ i > 1
                /\ st[s].calls[i - 1].arg.specifier.k = "Percent"
                /\ st[s].calls[i].arg.specifier.s = <<>>
           /\ st[s].calls[i].arg.specifier.k = "Percent" =>
                /\ i + 2 <= Len(st[s].calls)
                /\ IsText(st[s], i + 1)
                /\ IsText(st[s], i + 2)

\* C25 witness: "%%%d" has been formatted into a byte buffer: text, Percent,
\* text, text, Int, text
C25_Witness ==
  /\ template = <<B.percent, B.percent, B.percent, B.d>>
  /\ Succeeded(st["io"])
  /\ Len(st["io"].calls) = 6
  /\ st["io"].calls[2].arg.specifier.k = "Percent"
  /\ IsText(st["io"], 3) /\ IsText(st["io"], 4)
  /\ st["io"].calls[5].arg.specifier.k = "Int"

\* the number of '%' bytes of the template
PercentCount == Cardinality({j \in 1..Len(template) : template[j] = B.percent})

\* the call has stopped inside a sink that does not return, or on the read
\* of a string through NULL
DiedOutside(c) ==
  /\ c.pc = "abort"
  /\ \/ Len(c.calls) > 0 /\ ~c.calls[Len(c.calls)].returned
     \/ \E m \in 1..Len(c.fetched) : c.fetched[m].val = NullPtr

\* C26: every call of format() comes to an end: it returns its count or -1
\* unless a sink invocation does not return or a string is read through
\* NULL; the pieces of the template are taken one after the other, none
\* twice, and the sink is invoked at most 1 + 2 * (number of '%') times.
C26_FormatTerminates ==
  /\ [](\A s \in SinkNames : Len(st[s].calls) <= 1 + 2 * PercentCount)
  /\ [](\A s \in SinkNames : Running(st[s]) \/ st[s].pc = "done" \/ DiedOutside(st[s]))
  /\ [][\A s \in SinkNames : st'[s].iter \in {st[s].iter, st[s].iter + 1}]_vars
  /\ <>(\A s \in SinkNames : ~Running(st[s]))
  /\ <>(st["custom"].pc = "done" \/ DiedOutside(st["custom"]))

RECURSIVE Payloads(_)
\* the bytes of the text directives among the invocations, in order
Payloads(calls) ==
  IF Len(calls) = 0 THEN <<>>
  ELSE (IF calls[1].arg.specifier.k = "Bytes" THEN calls[1].arg.specifier.s ELSE <<>>)
         \o Payloads(Tail(calls))

\* position j of the template lies in a conversion specification
InConversion(j) ==
  \E m \in 1..Len(RefTokens) :
     RefTokens[m].k = "conv" /\ RefTokens[m].first <= j /\ j <= RefTokens[m].last

RECURSIVE Outside(_)
\* the template from position j on with every conversion specification
\* deleted
Outside(j) ==
  IF j > Len(template) THEN <<>>
  ELSE (IF InConversion(j) THEN <<>> ELSE <<template[j]>>) \o Outside(j + 1)

\* C27: in a call that succeeds, the payloads of the text directives, put
\* together in the order of the invocations, are the template with every
\* conversion specification ('%', flags, width, precision, length modifier
\* and conversion byte) deleted: every byte outside a conversion
\* specification is handed over once, in template order, and no byte of a
\* conversion specification is handed over as text.
C27_TextIsTemplateWithoutConversions ==
  \A s \in SinkNames : Succeeded(st[s]) => Payloads(st[s].calls) = Outside(1)

\* C27 witness: "%-5d-5" has been formatted into a byte buffer: the text
\* handed over is "-5", after an Int directive with the width 5
C27_Witness ==
  /\ template = <<B.percent, B.minus, B.zero + 5, B.d, B.minus, B.zero + 5>>
  /\ Succeeded(st["io"])
  /\ Len(st["io"].calls) = 3
  /\ st["io"].calls[2].arg.specifier.k = "Int"
  /\ st["io"].calls[2].arg.width = 5
  /\ Payloads(st["io"].calls) = <<B.minus, B.zero + 5>>
====
